---- MODULE Spec2Model ----
(***************************************************************************)
(* Conversation state machine and order ledger of the restaurant           *)
(* assistant: SharedMemory (models/shared_memory.py), the order agent's    *)
(* deterministic ledger edits (agents/order_agent.py), the router's        *)
(* fallback routing (agents/router_agent.py) and the coordinator's turn    *)
(* (agents/new_coordinator_agent.py).                                      *)
(*                                                                         *)
(* Text is a sequence of tokens (words, digit strings, punctuation) that   *)
(* Python joins with single spaces.  Money is in cents; order_total is     *)
(* kept in hundredths of a cent so that the factor 1.08 is exact.          *)
(***************************************************************************)
EXTENDS Integers, Sequences, FiniteSets, TLC

\* ------------------------------------------------------------------ bounds
MaxLines == 2
MaxQty == 2

\* --------------------------------------------------------------- constants
max_upsell_attempts == 2
ErrorThreshold == 3
TaxPercent == 8

\* -------------------------------------------------------------------- text
\* str.lower() on one token.
Lower(tok) ==
  CASE tok = "I" -> "i"
    [] tok = "REMOVE" -> "remove"
    [] tok = "Classic" -> "classic"
    [] tok = "Burger" -> "burger"
    [] tok = "Margherita" -> "margherita"
    [] tok = "Pizza" -> "pizza"
    [] OTHER -> tok

\* str.lower() on a text.
LowerText(s) == [i \in DOMAIN s |-> Lower(s[i])]

\* Tokens made of digits only (str.isdigit); every other token of the
\* vocabulary except Punct is alphabetic.
Digits == {"0", "1", "2", "3"}
Punct == {","}
IsAlpha(tok) == tok \notin Digits /\ tok \notin Punct

\* int() of a digit token.
ToInt(tok) ==
  CASE tok = "0" -> 0 [] tok = "1" -> 1 [] tok = "2" -> 2 [] tok = "3" -> 3

\* The proper substrings between the lowercase words that occur in the
\* texts below and the words the program looks for: <<a, b>> means that a
\* is a proper prefix (suffix, inner part) of b.
PrefixOf == {<<"burger", "burgers">>, <<"pizza", "pizzas">>,
             <<"deliver", "delivery">>, <<"pick", "pickup">>}
SuffixOf == {<<"up", "pickup">>}
InnerOf == {<<"it", "margherita">>}

\* Token j of an n-token text s against the token of t it is aligned with:
\* the first may end a word of t, the last may begin one.
TokIn(a, b, j, n) ==
  \/ a = b
  \/ n = 1 /\ (<<a, b>> \in PrefixOf \cup SuffixOf \cup InnerOf)
  \/ n > 1 /\ j = 1 /\ <<a, b>> \in SuffixOf
  \/ n > 1 /\ j = n /\ <<a, b>> \in PrefixOf

\* Python's `s in t` for texts: s occurs in t as a substring.
SubText(s, t) ==
  \/ Len(s) = 0
  \/ \E i \in 1..(Len(t) - Len(s) + 1) :
       \A j \in 1..Len(s) : TokIn(s[j], t[i + j - 1], j, Len(s))

\* any(word in text for word in words), words being one- or two-token texts.
AnyIn(words, t) == \E w \in words : SubText(w, t)

\* -------------------------------------------------------------------- menu
\* The first two items of get_default_menu, prices in cents.
Menu ==
  << [name |-> <<"Classic", "Burger">>, price |-> 1299],
     [name |-> <<"Margherita", "Pizza">>, price |-> 1499] >>

\* item["name"].lower() of each item.
MenuLower == [i \in DOMAIN Menu |-> LowerText(Menu[i].name)]

\* The entries of intelligent_matches that name an item of Menu, in the
\* order of the dict.
IntelligentMatches ==
  << [key |-> <<"burger">>, name |-> <<"Classic", "Burger">>],
     [key |-> <<"pizza">>, name |-> <<"Margherita", "Pizza">>] >>

Min(S) == CHOOSE x \in S : \A y \in S : x <= y

\* The three passes of _find_best_menu_match on item_name.lower().
DirectMatches(low) == {i \in DOMAIN Menu : MenuLower[i] = low}
PartialMatches(low) ==
  {i \in DOMAIN Menu : SubText(low, MenuLower[i]) \/ SubText(MenuLower[i], low)}
SmartMatches(low) ==
  {k \in DOMAIN IntelligentMatches :
     /\ SubText(IntelligentMatches[k].key, low)
     /\ \E i \in DOMAIN Menu : Menu[i].name = IntelligentMatches[k].name}
NamedItem(name) == Min({i \in DOMAIN Menu : Menu[i].name = name})

BestMatch(low) ==
  IF DirectMatches(low) # {} THEN Min(DirectMatches(low))
  ELSE IF PartialMatches(low) # {} THEN Min(PartialMatches(low))
  ELSE IF SmartMatches(low) # {}
    THEN NamedItem(IntelligentMatches[Min(SmartMatches(low))].name)
  ELSE 0

\* Index in Menu of the item _find_best_menu_match returns, 0 for None.
FindBestMenuMatch(item_name) == BestMatch(LowerText(item_name))

\* ------------------------------------------------------------ SharedMemory
\* A fresh SharedMemory(): the dataclass defaults.
NewSharedMemory ==
  [ customer_intent |-> "GREETING",
    conversation_stage |-> "greeting",
    needs_human_intervention |-> FALSE,
    intervention_reason |-> "",
    current_order |-> <<>>,
    order_status |-> "IN_PROGRESS",
    order_total |-> 0,
    delivery_method |-> "",
    upsell_attempts |-> 0,
    error_count |-> 0 ]

RECURSIVE Subtotal(_)
\* sum of price * quantity over the lines, in cents.
Subtotal(order) ==
  IF order = <<>> THEN 0
  ELSE Head(order).price * Head(order).quantity + Subtotal(Tail(order))

\* total * 1.08, in hundredths of a cent.
UpdateOrderTotal(m) ==
  [m EXCEPT !.order_total = Subtotal(m.current_order) * (100 + TaxPercent)]

\* A merge that looks at the name only.
SameName(order, item) ==
  {i \in DOMAIN order : order[i].name = item.name}

\* The lines of m that add_order_item would merge item into.
SameLine(order, item) ==
  {i \in DOMAIN order : /\ order[i].name = item.name
                        /\ order[i].customizations = item.customizations}

\* add_order_item without the search for an existing line.
AddOrderItemAppends(m, item) ==
  UpdateOrderTotal([m EXCEPT !.current_order = Append(@, item)])

\* add_order_item
AddOrderItem(m, item) ==
  IF SameLine(m.current_order, item) # {}
    THEN [m EXCEPT !.current_order[Min(SameLine(m.current_order, item))].quantity
                      = @ + item.quantity]
    ELSE UpdateOrderTotal([m EXCEPT !.current_order = Append(@, item)])

\* del current_order[i]
DelAt(order, i) ==
  [k \in 1..(Len(order) - 1) |-> IF k < i THEN order[k] ELSE order[k + 1]]

\* The lines remove_order_item(item_name) matches.
NamedLines(order, item_name) ==
  {i \in DOMAIN order : LowerText(order[i].name) = LowerText(item_name)}

\* remove_order_item: the memory after the call and the value returned.
RemoveOrderItem(m, item_name) ==
  IF NamedLines(m.current_order, item_name) # {}
    THEN [mem |-> UpdateOrderTotal(
                    [m EXCEPT !.current_order =
                       DelAt(@, Min(NamedLines(m.current_order, item_name)))]),
          ret |-> TRUE]
    ELSE [mem |-> m, ret |-> FALSE]

ClearOrder(m) ==
  [m EXCEPT !.current_order = <<>>, !.order_total = 0,
            !.order_status = "IN_PROGRESS"]

SetCustomerIntent(m, intent) == [m EXCEPT !.customer_intent = intent]

\* The reason is an f-string with a fixed prefix: never empty.
TriggerHumanIntervention(m) ==
  [m EXCEPT !.needs_human_intervention = TRUE,
            !.intervention_reason = "Multiple errors occurred"]

\* An escalation that waits for one error more.
IncrementErrorLate(m) ==
  LET m1 == [m EXCEPT !.error_count = @ + 1]
  IN  IF m1.error_count > ErrorThreshold
        THEN TriggerHumanIntervention(m1) ELSE m1

IncrementError(m) ==
  LET m1 == [m EXCEPT !.error_count = @ + 1]
  IN  IF m1.error_count >= ErrorThreshold
        THEN TriggerHumanIntervention(m1) ELSE m1

\* ------------------------------------------- OrderAgent: modification parser
\* One-letter words: too short to be an item text on their own.
OneLetter == {"a", "i"}

NoQty == -1

IsDigitAt(t, p) == p <= Len(t) /\ t[p] \in Digits
IsItemAt(t, p) ==
  p <= Len(t) /\ IsAlpha(t[p]) /\ (t[p] \notin OneLetter \/ p < Len(t))

RECURSIVE AlphaRunEnd(_, _)
\* First position after the run of alphabetic tokens starting at p: the end
\* of a greedy [a-zA-Z\s]+.
AlphaRunEnd(t, p) ==
  IF p <= Len(t) /\ IsAlpha(t[p]) THEN AlphaRunEnd(t, p + 1) ELSE p

\* Length of the trigger phrase of trigs that starts at position i, 0 if none.
TriggerLen(trigs, t, i) ==
  LET hit == {w \in trigs : /\ i + Len(w) - 1 <= Len(t)
                            /\ SubSeq(t, i, i + Len(w) - 1) = w}
  IN  IF hit = {} THEN 0 ELSE Len(CHOOSE w \in hit : TRUE)

RemovalTriggers == {<<"remove">>, <<"delete">>, <<"take", "off">>, <<"drop">>}

\* (?:the\s+)?(?:(\d+)\s+)?([a-zA-Z][a-zA-Z\s]+) at position p, with the
\* regex's backtracking order; end = 0 when nothing matches.
RemovalAt(t, p) ==
  LET the == p <= Len(t) /\ t[p] = "the"
  IN  IF the /\ IsDigitAt(t, p + 1) /\ IsItemAt(t, p + 2)
        THEN [qty |-> ToInt(t[p + 1]), from |-> p + 2, end |-> AlphaRunEnd(t, p + 2)]
      ELSE IF the /\ IsItemAt(t, p + 1)
        THEN [qty |-> NoQty, from |-> p + 1, end |-> AlphaRunEnd(t, p + 1)]
      ELSE IF IsDigitAt(t, p) /\ IsItemAt(t, p + 1)
        THEN [qty |-> ToInt(t[p]), from |-> p + 1, end |-> AlphaRunEnd(t, p + 1)]
      ELSE IF IsItemAt(t, p)
        THEN [qty |-> NoQty, from |-> p, end |-> AlphaRunEnd(t, p)]
      ELSE [qty |-> NoQty, from |-> 0, end |-> 0]

RECURSIVE RemovalMatches(_, _)
\* re.findall(removal pattern, text) from position i on.
RemovalMatches(t, i) ==
  IF i > Len(t) THEN <<>>
  ELSE LET n == TriggerLen(RemovalTriggers, t, i)
           m == RemovalAt(t, i + n)
       IN  IF n = 0 \/ m.end = 0 THEN RemovalMatches(t, i + 1)
           ELSE << [qty |-> m.qty, item |-> SubSeq(t, m.from, m.end - 1)] >>
                  \o RemovalMatches(t, m.end)

\* The lazy ([a-zA-Z][a-zA-Z\s]+?)s?(?:\b|$) takes one word and leaves out
\* its final s.
Singular(tok) ==
  CASE tok = "burgers" -> "burger"
    [] tok = "pizzas" -> "pizza"
    [] OTHER -> tok

QtySetTriggers1 == {<<"make", "that">>, <<"change">>, <<"set">>}
QtySetTriggers2 == {<<"change">>, <<"set">>}

IsWordAt(t, p) == p <= Len(t) /\ IsAlpha(t[p]) /\ t[p] \notin OneLetter

\* First quantity-set pattern at position p: (number, word).
QtySet1At(t, p) ==
  LET the == p <= Len(t) /\ t[p] = "the"
  IN  IF the /\ IsDigitAt(t, p + 1) /\ IsWordAt(t, p + 2)
        THEN [qty |-> ToInt(t[p + 1]), item |-> <<Singular(t[p + 2])>>, end |-> p + 3]
      ELSE IF the /\ IsWordAt(t, p + 1)
        THEN [qty |-> NoQty, item |-> <<Singular(t[p + 1])>>, end |-> p + 2]
      ELSE IF IsDigitAt(t, p) /\ IsWordAt(t, p + 1)
        THEN [qty |-> ToInt(t[p]), item |-> <<Singular(t[p + 1])>>, end |-> p + 2]
      ELSE IF IsWordAt(t, p)
        THEN [qty |-> NoQty, item |-> <<Singular(t[p])>>, end |-> p + 1]
      ELSE [qty |-> NoQty, item |-> <<>>, end |-> 0]

\* Second quantity-set pattern at position p: (words, number), the words as
\* few as an optional "to" and a number can follow.
QtySet2At(t, p) ==
  LET ends == {e \in (p + 1)..AlphaRunEnd(t, p) :
                 /\ (e > p + 1 \/ t[p] \notin OneLetter)
                 /\ (\/ IsDigitAt(t, e)
                     \/ (e < Len(t) /\ t[e] = "to" /\ IsDigitAt(t, e + 1)))}
  IN  IF ends = {} THEN [qty |-> NoQty, item |-> <<>>, end |-> 0]
      ELSE LET e == Min(ends)
               d == IF IsDigitAt(t, e) THEN e ELSE e + 1
           IN  [qty |-> ToInt(t[d]), item |-> SubSeq(t, p, e - 1), end |-> d + 1]

RECURSIVE QtySetMatches(_, _, _)
\* re.finditer(pattern k, text) from position i on; a match that carries no
\* number makes int() raise and is skipped.
QtySetMatches(k, t, i) ==
  IF i > Len(t) THEN <<>>
  ELSE LET n == TriggerLen(IF k = 1 THEN QtySetTriggers1 ELSE QtySetTriggers2, t, i)
           m == IF k = 1 THEN QtySet1At(t, i + n) ELSE QtySet2At(t, i + n)
       IN  IF n = 0 \/ m.end = 0 THEN QtySetMatches(k, t, i + 1)
           ELSE (IF m.qty = NoQty THEN <<>>
                 ELSE << [qty |-> m.qty, item |-> m.item] >>)
                  \o QtySetMatches(k, t, m.end)

RECURSIVE NoMatches(_, _)
\* re.findall(r"\bno\s+([a-zA-Z][a-zA-Z\s]+)\b", text) from position i on.
NoMatches(t, i) ==
  IF i > Len(t) THEN <<>>
  ELSE IF t[i] = "no" /\ IsItemAt(t, i + 1)
    THEN << SubSeq(t, i + 1, AlphaRunEnd(t, i + 1) - 1) >>
           \o NoMatches(t, AlphaRunEnd(t, i + 1))
  ELSE NoMatches(t, i + 1)

\* The line of order that find_order_item_by_text settles on for the
\* lowercase target name, 0 for None.
FindLine(order, target) ==
  IF \E i \in DOMAIN order : LowerText(order[i].name) = target
    THEN Min({i \in DOMAIN order : LowerText(order[i].name) = target})
  ELSE IF \E i \in DOMAIN order :
            \/ SubText(target, LowerText(order[i].name))
            \/ SubText(LowerText(order[i].name), target)
    THEN Min({i \in DOMAIN order :
                \/ SubText(target, LowerText(order[i].name))
                \/ SubText(LowerText(order[i].name), target)})
  ELSE 0

\* target_name.lower(), mi being the menu match of name_text.
TargetName(name_text, mi) ==
  LowerText(IF mi # 0 THEN Menu[mi].name ELSE name_text)

\* find_order_item_by_text: index of the line found, 0 for None.
FindOrderItemByText(order, name_text) ==
  FindLine(order, TargetName(name_text, FindBestMenuMatch(name_text)))

\* The body of the removal loop, line i found for match m; st = [order, modified].
RemoveLine(st, m, i) ==
  IF i = 0 THEN st
  ELSE IF m.qty = NoQty \/ m.qty >= st.order[i].quantity
    THEN [order |-> DelAt(st.order, i), modified |-> TRUE]
  ELSE [order |-> [st.order EXCEPT ![i].quantity = @ - m.qty],
        modified |-> TRUE]

\* The body of the quantity-set loop, line i found for match m.
SetLine(st, m, i) ==
  IF i = 0 THEN st
  ELSE IF m.qty = 0
    THEN [order |-> DelAt(st.order, i), modified |-> TRUE]
  ELSE [order |-> [st.order EXCEPT ![i].quantity = m.qty], modified |-> TRUE]

\* The body of the "no X" loop, line i found.
DropLine(st, i) ==
  IF i = 0 THEN st ELSE [order |-> DelAt(st.order, i), modified |-> TRUE]

RECURSIVE ApplyRemovals(_, _)
ApplyRemovals(st, ms) ==
  IF ms = <<>> THEN st
  ELSE ApplyRemovals(
         RemoveLine(st, Head(ms), FindOrderItemByText(st.order, Head(ms).item)),
         Tail(ms))

RECURSIVE ApplyQtySets(_, _)
ApplyQtySets(st, ms) ==
  IF ms = <<>> THEN st
  ELSE ApplyQtySets(
         SetLine(st, Head(ms), FindOrderItemByText(st.order, Head(ms).item)),
         Tail(ms))

RECURSIVE ApplyNos(_, _)
ApplyNos(st, ms) ==
  IF ms = <<>> THEN st
  ELSE ApplyNos(DropLine(st, FindOrderItemByText(st.order, Head(ms))), Tail(ms))

\* [it for it in current_order if it.get("quantity", 0) > 0]
RECURSIVE PositiveLines(_)
PositiveLines(order) ==
  IF order = <<>> THEN <<>>
  ELSE (IF Head(order).quantity > 0 THEN <<Head(order)>> ELSE <<>>)
         \o PositiveLines(Tail(order))

CancelPhrases ==
  { <<"cancel", "my", "order">>, <<"cancel", "order">>, <<"cancel", "it">>,
    <<"forget", "my", "order">>, <<"abort", "order">>,
    <<"nevermind,", "cancel">> }

\* if not modified: the "no X" removals.
NoEdits(st, text) ==
  IF st.modified THEN st ELSE ApplyNos(st, NoMatches(text, 1))

\* The deterministic edits of handle_order_modification on the lines.
DeterministicEdits(order, text) ==
  NoEdits(
    ApplyQtySets(
      ApplyQtySets(
        ApplyRemovals([order |-> order, modified |-> FALSE],
                      RemovalMatches(text, 1)),
        QtySetMatches(1, text, 1)),
      QtySetMatches(2, text, 1)),
    text)

\* A parser that filters the lines and recomputes the total on every path.
ApplyEditsAlways(m, ed, llm_ok) ==
  [mem |-> UpdateOrderTotal(
             [m EXCEPT !.current_order = PositiveLines(ed.order)]),
   kind |-> IF ed.modified THEN "edit"
            ELSE IF llm_ok THEN "delegated" ELSE "fallback"]

\* handle_order_modification after the parsing: the lines are filtered and
\* the total recomputed, or the reply is delegated to the LLM.
ApplyEdits(m, ed, llm_ok) ==
  IF ed.modified
    THEN [mem |-> UpdateOrderTotal(
                    [m EXCEPT !.current_order = PositiveLines(ed.order)]),
          kind |-> "edit"]
  ELSE [mem |-> m, kind |-> IF llm_ok THEN "delegated" ELSE "fallback"]

\* handle_order_modification on the order agent's memory m: the memory after
\* the call and the kind of reply.  llm_ok tells whether the delegated
\* text-generation call returns.
HandleOrderModification(m, customer_input, llm_ok) ==
  IF m.conversation_stage = "completed"
       \/ m.order_status \in {"COMPLETE", "CONFIRMED"}
    THEN [mem |-> m, kind |-> "completed"]
  ELSE IF AnyIn(CancelPhrases, LowerText(customer_input))
    THEN [mem |-> ClearOrder(m), kind |-> "cancel"]
  ELSE ApplyEdits(m, DeterministicEdits(m.current_order, LowerText(customer_input)),
                  llm_ok)

\* ------------------------------------- OrderAgent: processing extracted items
ConfidenceThreshold == 6

\* _normalize_order_item on a raw item of the LLM's result, mi being its menu
\* match; a price <= 0 stands for a missing one.
Normalized(raw, mi) ==
  [ name |-> IF mi # 0 THEN Menu[mi].name ELSE raw.name,
    quantity |-> IF raw.quantity <= 0 THEN 1 ELSE raw.quantity,
    price |-> IF raw.price > 0 THEN raw.price
              ELSE IF mi # 0 THEN Menu[mi].price ELSE 0,
    customizations |-> raw.customizations ]

NormalizeOrderItem(raw) == Normalized(raw, FindBestMenuMatch(raw.name))

\* add_order_item(line) and added.append(line); st = [mem, added, failed].
AddLine(st, line) ==
  [st EXCEPT !.mem = AddOrderItem(@, line), !.added = Append(@, line)]

RECURSIVE AddNormalized(_, _)
\* The loop over result.added_items; the empty name <<>> normalizes to None.
AddNormalized(st, raws) ==
  IF raws = <<>> THEN st
  ELSE IF Head(raws).name = <<>> THEN AddNormalized(st, Tail(raws))
  ELSE AddNormalized(AddLine(st, NormalizeOrderItem(Head(raws))), Tail(raws))

\* The body of the loop of _fallback_order_processing without the test of
\* the confidence.
FallbackStepAnyConfidence(st, it, mi) ==
  IF mi # 0
    THEN AddLine(st, [ name |-> Menu[mi].name, quantity |-> it.quantity,
                       price |-> Menu[mi].price,
                       customizations |-> it.customizations ])
    ELSE [st EXCEPT !.failed = Append(@, it.item_name)]

\* The body of the loop of _fallback_order_processing, mi being the menu
\* match of item it.
FallbackStep(st, it, mi) ==
  IF mi # 0 /\ it.confidence > ConfidenceThreshold
    THEN AddLine(st, [ name |-> Menu[mi].name, quantity |-> it.quantity,
                       price |-> Menu[mi].price,
                       customizations |-> it.customizations ])
    ELSE [st EXCEPT !.failed = Append(@, it.item_name)]

RECURSIVE FallbackLoop(_, _)
FallbackLoop(st, items) ==
  IF items = <<>> THEN st
  ELSE FallbackLoop(
         FallbackStep(st, Head(items), FindBestMenuMatch(Head(items).item_name)),
         Tail(items))

\* The OrderProcessingResult of _fallback_order_processing, with the memory.
FallbackResult(st) ==
  [ mem |-> st.mem, success |-> Len(st.added) > 0,
    added_items |-> st.added, failed_items |-> st.failed,
    requires_clarification |-> Len(st.failed) > 0 ]

\* _fallback_order_processing: the memory after it and the result.
FallbackOrderProcessing(m, extracted_items) ==
  FallbackResult(FallbackLoop([mem |-> m, added |-> <<>>, failed |-> <<>>],
                              extracted_items))

\* The result of the order chain, its added_items normalized and added.
ChainResult(st, llm) ==
  [ mem |-> IF st.added # <<>>
              THEN SetCustomerIntent(st.mem, "ORDERING") ELSE st.mem,
    success |-> llm.success, added_items |-> st.added,
    failed_items |-> llm.failed_items,
    requires_clarification |-> llm.requires_clarification ]

\* process_order_with_extracted_items; llm is the parsed result of the order
\* chain, or its failure (llm.raise).
ProcessOrderWithExtractedItems(m, extracted_items, llm) ==
  IF llm.raise THEN FallbackOrderProcessing(m, extracted_items)
  ELSE ChainResult(AddNormalized([mem |-> m, added |-> <<>>, failed |-> <<>>],
                                 llm.added_items), llm)

\* get_order_summary()['totals']['total'], in hundredths of a cent.
SummaryTotal(m) ==
  IF m.current_order = <<>> THEN 0
  ELSE Subtotal(m.current_order) * 100 + Subtotal(m.current_order) * TaxPercent

\* validate_order_completion()["ready"]
OrderReady(m) == m.current_order # <<>> /\ m.order_total > 0

\* ------------------------------------------------------------------ router
\* The entries of _manual_item_extraction's table that name an item of Menu.
ManualMatches ==
  << [key |-> <<"burger">>, name |-> <<"Classic", "Burger">>],
     [key |-> <<"pizza">>, name |-> <<"Margherita", "Pizza">>] >>

NumberWords == {"one", "two", "three", "four", "five"}
WordToNum(tok) ==
  CASE tok = "one" -> 1 [] tok = "two" -> 2 [] tok = "three" -> 3
    [] tok = "four" -> 4 [] tok = "five" -> 5

Extracted(name, quantity) ==
  [ item_name |-> name, quantity |-> quantity, customizations |-> <<>>,
    confidence |-> 8 ]

\* found_items[name] = {...}: a dict keeps the position of a key it has.
Upsert(found, name, quantity) ==
  IF \E i \in DOMAIN found : found[i].item_name = name
    THEN [i \in DOMAIN found |->
            IF found[i].item_name = name THEN Extracted(name, quantity)
            ELSE found[i]]
    ELSE Append(found, Extracted(name, quantity))

RECURSIVE UpsertKeys(_, _, _, _)
\* for key, menu_item in intelligent_matches.items(): if key in item_name
UpsertKeys(found, item_name, quantity, k) ==
  IF k > Len(ManualMatches) THEN found
  ELSE UpsertKeys(IF SubText(ManualMatches[k].key, item_name)
                    THEN Upsert(found, ManualMatches[k].name, quantity)
                    ELSE found,
                  item_name, quantity, k + 1)

RECURSIVE QuantityScan(_, _, _, _)
\* The matches of a quantity pattern (numeric = digits, otherwise number
\* words) from position i on, each followed by a greedy [a-zA-Z\s]+.
QuantityScan(found, t, i, numeric) ==
  IF i >= Len(t) THEN found
  ELSE LET isnum == IF numeric THEN t[i] \in Digits ELSE t[i] \in NumberWords
           e == AlphaRunEnd(t, i + 1)
       IN  IF isnum /\ e > i + 1
             THEN QuantityScan(
                    UpsertKeys(found, SubSeq(t, i + 1, e - 1),
                               IF numeric THEN ToInt(t[i]) ELSE WordToNum(t[i]), 1),
                    t, e, numeric)
             ELSE QuantityScan(found, t, i + 1, numeric)

RECURSIVE UnquantifiedScan(_, _, _)
\* items without explicit quantities
UnquantifiedScan(found, t, k) ==
  IF k > Len(ManualMatches) THEN found
  ELSE UnquantifiedScan(
         IF /\ SubText(ManualMatches[k].key, t)
            /\ ~ \E i \in DOMAIN found : found[i].item_name = ManualMatches[k].name
           THEN Append(found, Extracted(ManualMatches[k].name, 1))
           ELSE found,
         t, k + 1)

ManualItemExtraction(user_input) ==
  LET t == LowerText(user_input)
  IN  UnquantifiedScan(
        QuantityScan(QuantityScan(<<>>, t, 1, TRUE), t, 1, FALSE), t, 1)

RouteDecision(agent, user_intent, extracted_items, delivery_method, wants_order_change, needs_clarification) ==
  [ agent |-> agent, user_intent |-> user_intent,
    extracted_items |-> extracted_items, delivery_method |-> delivery_method,
    wants_order_change |-> wants_order_change,
    needs_clarification |-> needs_clarification ]

\* _fallback_routing without the branch for the awaiting_delivery stage.
FallbackRoutingAnyStage(user_input, stage) ==
  LET t == LowerText(user_input)
      has(words) == AnyIn({<<w>> : w \in words}, t)
  IN  IF has({"menu", "see", "show", "what", "have"})
        THEN RouteDecision("menu", "BROWSE_MENU", <<>>, "", FALSE, FALSE)
      ELSE IF has({"order", "want", "get", "buy", "take"})
        THEN RouteDecision("order", "PLACE_ORDER",
                           ManualItemExtraction(user_input), "", FALSE, FALSE)
      ELSE IF has({"done", "finish", "complete", "pay", "checkout"})
        THEN RouteDecision("finalization", "FINALIZE_ORDER", <<>>, "", FALSE, FALSE)
      ELSE RouteDecision("menu", "ASK_QUESTION", <<>>, "", FALSE, FALSE)

\* _fallback_routing with the branch for the awaiting_delivery stage taken
\* at every stage.
FallbackRoutingEveryStage(user_input, stage) ==
  LET t == LowerText(user_input)
      has(words) == AnyIn({<<w>> : w \in words}, t)
  IN  IF has({"delivery", "deliver", "delivered"})
        THEN RouteDecision("delivery", "DELIVERY_METHOD", <<>>, "delivery", FALSE, FALSE)
      ELSE IF has({"pickup", "takeaway"})
              \/ AnyIn({<<"pick", "up">>, <<"take", "away">>}, t)
        THEN RouteDecision("delivery", "DELIVERY_METHOD", <<>>, "pickup", FALSE, FALSE)
      ELSE IF has({"add", "more", "another", "also", "want", "order"})
        THEN RouteDecision("order", "MODIFY_ORDER",
                           ManualItemExtraction(user_input), "", TRUE, FALSE)
      ELSE IF has({"cancel", "stop", "nevermind", "forget"})
        THEN RouteDecision("finalization", "CANCEL_ORDER", <<>>, "", TRUE, FALSE)
      ELSE FallbackRoutingAnyStage(user_input, stage)

\* _fallback_routing(user_input, conversation_context)
FallbackRouting(user_input, stage) ==
  LET t == LowerText(user_input)
      has(words) == AnyIn({<<w>> : w \in words}, t)
      general ==
        IF has({"menu", "see", "show", "what", "have"})
          THEN RouteDecision("menu", "BROWSE_MENU", <<>>, "", FALSE, FALSE)
        ELSE IF has({"order", "want", "get", "buy", "take"})
          THEN RouteDecision("order", "PLACE_ORDER",
                             ManualItemExtraction(user_input), "", FALSE, FALSE)
        ELSE IF has({"done", "finish", "complete", "pay", "checkout"})
          THEN RouteDecision("finalization", "FINALIZE_ORDER", <<>>, "", FALSE, FALSE)
        ELSE RouteDecision("menu", "ASK_QUESTION", <<>>, "", FALSE, FALSE)
  IN  IF stage # "awaiting_delivery" THEN general
      ELSE IF has({"delivery", "deliver", "delivered"})
        THEN RouteDecision("delivery", "DELIVERY_METHOD", <<>>, "delivery", FALSE, FALSE)
      ELSE IF has({"pickup", "takeaway"})
              \/ AnyIn({<<"pick", "up">>, <<"take", "away">>}, t)
        THEN RouteDecision("delivery", "DELIVERY_METHOD", <<>>, "pickup", FALSE, FALSE)
      ELSE IF has({"add", "more", "another", "also", "want", "order"})
        THEN RouteDecision("order", "MODIFY_ORDER",
                           ManualItemExtraction(user_input), "", TRUE, FALSE)
      ELSE IF has({"cancel", "stop", "nevermind", "forget"})
        THEN RouteDecision("finalization", "CANCEL_ORDER", <<>>, "", TRUE, FALSE)
      ELSE general

\* ------------------------------------------------------------------- state
\* heap[0] is the SharedMemory made by NewCoordinatorAgent.__init__, the one
\* OrderAgent.shared_memory refers to for good; heap[1] is the one made by
\* the latest reset_conversation.  coord is the object that the
\* coordinator's self.shared_memory refers to.  ev describes the operation
\* that led to the state.
VARIABLES heap, coord, ev

vars == <<heap, coord, ev>>

OrderAgentRef == 0

\* The SharedMemory behind OrderAgent.shared_memory and the one behind
\* NewCoordinatorAgent.shared_memory.
OrderMemory == heap[OrderAgentRef]
CoordMemory == heap[coord]

\* The conversation_stage that RestaurantGraph.process_conversation reports:
\* it runs process_user_input and copies the coordinator's shared memory.
ReportedStage == CoordMemory.conversation_stage

\* -------------------------------------------------------------- coordinator
\* What a handler leaves: the objects, the reply ("agent", or "raise" for an
\* exception that leaves the handler), the kind of modification reply and
\* the calls that raised in it and were caught.
Outcome(h, reply, mod, failed) ==
  [heap |-> h, reply |-> reply, mod |-> mod, failed |-> failed]

\* self.shared_memory.set_customer_intent(intent, ...)
SetIntent(h, c, intent) == [h EXCEPT ![c] = SetCustomerIntent(@, intent)]

\* self.shared_memory.conversation_stage = stage, after set_customer_intent
SetStage(h, c, intent, stage) ==
  [h EXCEPT ![c] = [SetCustomerIntent(@, intent) EXCEPT !.conversation_stage = stage]]

\* _handle_menu_request, the intent set: handle_menu_query calls the LLM
\* unless the text asks for the menu or a recommendation.
MenuReply(h1, low, sub) ==
  IF SubText(<<"menu">>, low) \/ SubText(<<"show">>, low)
       \/ SubText(<<"recommend">>, low)
    THEN Outcome(h1, "agent", "none", {})
  ELSE IF sub.text_ok THEN Outcome(h1, "agent", "none", {})
  ELSE Outcome(h1, "raise", "none", {"menu"})

\* _handle_menu_request
HandleMenuRequest(h, c, user_input, sub) ==
  MenuReply(SetIntent(h, c, "BROWSING"), LowerText(user_input), sub)

\* The order agent's memory replaced by the one its call md left.
Modified(h1, md) ==
  Outcome([h1 EXCEPT ![OrderAgentRef] = md.mem], "agent", md.kind,
          IF md.kind = "fallback" THEN {"modification"} ELSE {})

\* The order agent's memory replaced by the one its call pr left.
Processed(h1, pr, sub) ==
  Outcome([h1 EXCEPT ![OrderAgentRef] = pr.mem], "agent", "none",
          IF sub.order.raise THEN {"order"} ELSE {})

\* _handle_order_request, the intent set.
OrderReply(h1, user_input, d, sub) ==
  IF d.user_intent = "MODIFY_ORDER"
    THEN Modified(h1, HandleOrderModification(h1[OrderAgentRef], user_input,
                                              sub.text_ok))
  ELSE IF d.extracted_items # <<>>
    THEN Processed(h1, ProcessOrderWithExtractedItems(
                         h1[OrderAgentRef], d.extracted_items, sub.order), sub)
  ELSE Outcome(h1, "agent", "none", {})

\* _handle_order_request
HandleOrderRequest(h, c, user_input, d, sub) ==
  OrderReply(SetIntent(h, c, "ORDERING"), user_input, d, sub)

\* _handle_upselling_request: with lines in the ledger and attempts left,
\* suggest_upsell(mock_order) calls mock_order.is_empty(), which MockOrder
\* does not have; the bare except answers with its own suggestion, and
\* upsell_attempts is left alone on every path.
HandleUpsellingRequest(h, c) ==
  IF h[c].current_order = <<>> THEN Outcome(h, "agent", "none", {})
  ELSE IF h[c].upsell_attempts >= max_upsell_attempts
    THEN Outcome(h, "agent", "none", {})
  ELSE Outcome(h, "agent", "none", {"upselling"})

\* clear_order(), set_customer_intent("GREETING"), stage greeting
CancelOrder(m) ==
  [SetCustomerIntent(ClearOrder(m), "GREETING")
     EXCEPT !.conversation_stage = "greeting"]

\* OrderAgent.validate_order_completion: the verdict and its message.
ValidateOrderCompletion(m) ==
  [ready |-> OrderReady(m),
   message |-> IF m.current_order = <<>> THEN "No items in order"
               ELSE IF m.order_total <= 0 THEN "Missing: valid pricing"
               ELSE "Order ready for completion"]

\* _handle_finalization_request without the validation of lines 195-198.
HandleFinalizationUnchecked(h, c, d) ==
  IF d.wants_order_change /\ d.user_intent = "CANCEL_ORDER"
    THEN Outcome([h EXCEPT ![c] = CancelOrder(@)], "agent", "none", {})
  ELSE Outcome(SetStage(h, c, "DELIVERY_METHOD", "awaiting_delivery"),
               "agent", "none", {})

\* _handle_finalization_request
HandleFinalizationRequest(h, c, d) ==
  IF d.wants_order_change /\ d.user_intent = "CANCEL_ORDER"
    THEN Outcome([h EXCEPT ![c] = CancelOrder(@)], "agent", "none", {})
  ELSE IF ~ ValidateOrderCompletion(h[OrderAgentRef]).ready
    THEN Outcome(SetIntent(h, c, "FINALIZING"), "agent", "none", {})
  ELSE Outcome(SetStage(h, c, "DELIVERY_METHOD", "awaiting_delivery"),
               "agent", "none", {})

\* The modification branch of _handle_delivery_request, the order agent's
\* call md made.
DeliveryModified(h, c, md) ==
  Outcome(SetStage([h EXCEPT ![OrderAgentRef] = md.mem], c,
                   "DELIVERY_METHOD", "awaiting_delivery"),
          "agent", md.kind,
          IF md.kind = "fallback" THEN {"modification"} ELSE {})

\* _handle_delivery_request
HandleDeliveryRequest(h, c, user_input, d, sub) ==
  IF d.wants_order_change /\ d.user_intent = "MODIFY_ORDER"
    THEN DeliveryModified(h, c, HandleOrderModification(
                                  h[OrderAgentRef], user_input, sub.text_ok))
  ELSE IF d.wants_order_change /\ d.user_intent = "CANCEL_ORDER"
    THEN Outcome([h EXCEPT ![c] = CancelOrder(@)], "agent", "none", {})
  ELSE IF d.delivery_method # ""
    THEN Outcome([h EXCEPT ![c] =
                    [SetCustomerIntent(@, "COMPLETED")
                       EXCEPT !.delivery_method = d.delivery_method,
                              !.conversation_stage = "completed"]],
                 "agent", "none", {})
  ELSE Outcome(h, "agent", "none", {})

\* _execute_agent_action
ExecuteAgentAction(h, c, user_input, d, sub) ==
  IF d.needs_clarification THEN Outcome(h, "agent", "none", {})
  ELSE IF d.agent = "menu" THEN HandleMenuRequest(h, c, user_input, sub)
  ELSE IF d.agent = "order" THEN HandleOrderRequest(h, c, user_input, d, sub)
  ELSE IF d.agent = "upselling" THEN HandleUpsellingRequest(h, c)
  ELSE IF d.agent = "finalization" THEN HandleFinalizationRequest(h, c, d)
  ELSE IF d.agent = "delivery" THEN HandleDeliveryRequest(h, c, user_input, d, sub)
  ELSE HandleMenuRequest(h, c, user_input, sub)

\* _post_process_response
PostProcessResponse(h, c, d) ==
  IF /\ d.agent = "order"
     /\ h[c].current_order # <<>>
     /\ h[c].upsell_attempts < max_upsell_attempts
    THEN [h EXCEPT ![c].upsell_attempts = @ + 1]
    ELSE h

\* process_user_input with an except clause that answers without
\* increment_error.
RespondUncounted(c, d, r) ==
  IF r.reply = "raise"
    THEN Outcome(r.heap, "error", r.mod, r.failed)
  ELSE Outcome(PostProcessResponse(r.heap, c, d), "agent", r.mod, r.failed)

\* process_user_input once _execute_agent_action has left r: the except
\* clause counts the error, otherwise the response is post-processed.
Respond(c, d, r) ==
  IF r.reply = "raise"
    THEN Outcome([r.heap EXCEPT ![c] = IncrementError(@)], "error",
                 r.mod, r.failed)
  ELSE Outcome(PostProcessResponse(r.heap, c, d), "agent", r.mod, r.failed)

\* process_user_input after the router has answered with d.
Turn(h, c, user_input, d, sub) ==
  IF d.agent = "human" \/ h[c].needs_human_intervention
    THEN Outcome(h, "human", "none", {})
  ELSE Respond(c, d, ExecuteAgentAction(h, c, user_input, d, sub))

\* ------------------------------------------------------------------ inputs
\* What the customer types.
Utterances ==
  { <<"hello">>,
    <<"show", "menu">>,
    <<"I", "want", "a", "burger">>,
    <<"I", "want", "0", "pizzas">>,
    <<"done">>,
    <<"delivery">>,
    <<"cancel", "my", "order">>,
    <<"cancel", "the", "delivery">>,
    <<"remove", "the", "burger">>,
    <<"REMOVE", "1", "Burger">>,
    <<"make", "that", "2", "burgers">>,
    <<"no", "pizza">> }

\* The ones among them that the order agent is asked to apply as a change,
\* and a greeting.
ChangeUtterances ==
  { <<"hello">>,
    <<"cancel", "my", "order">>,
    <<"remove", "the", "burger">>,
    <<"REMOVE", "1", "Burger">>,
    <<"make", "that", "2", "burgers">>,
    <<"no", "pizza">> }

\* The ones among them that the order agent is asked to take as an order,
\* and a greeting.
OrderUtterances ==
  { <<"hello">>,
    <<"I", "want", "a", "burger">>,
    <<"I", "want", "0", "pizzas">> }

\* Decisions the routing LLM may produce, extracted_items left empty as the
\* prompt asks; fields a handler does not read keep their defaults.
LLMDecisions ==
  { RouteDecision("menu", "BROWSE_MENU", <<>>, "", FALSE, FALSE),
    RouteDecision("menu", "UNCLEAR", <<>>, "", FALSE, TRUE),
    RouteDecision("order", "PLACE_ORDER", <<>>, "", FALSE, FALSE),
    RouteDecision("order", "MODIFY_ORDER", <<>>, "", TRUE, FALSE),
    RouteDecision("upselling", "PLACE_ORDER", <<>>, "", FALSE, FALSE),
    RouteDecision("finalization", "FINALIZE_ORDER", <<>>, "", FALSE, FALSE),
    RouteDecision("finalization", "CANCEL_ORDER", <<>>, "", TRUE, FALSE),
    RouteDecision("finalization", "CANCEL_ORDER", <<>>, "", FALSE, FALSE),
    RouteDecision("delivery", "DELIVERY_METHOD", <<>>, "delivery", FALSE, FALSE),
    RouteDecision("delivery", "DELIVERY_METHOD", <<>>, "", FALSE, FALSE),
    RouteDecision("delivery", "CANCEL_ORDER", <<>>, "", TRUE, FALSE),
    RouteDecision("delivery", "CANCEL_ORDER", <<>>, "delivery", FALSE, FALSE),
    RouteDecision("delivery", "MODIFY_ORDER", <<>>, "", TRUE, FALSE),
    RouteDecision("human", "UNCLEAR", <<>>, "", FALSE, FALSE) }

\* Item lists the extraction LLM may produce.
LLMExtractions ==
  { <<>>,
    << [item_name |-> <<"burger">>, quantity |-> 1,
        customizations |-> <<>>, confidence |-> 9],
       [item_name |-> <<"Margherita", "Pizza">>, quantity |-> 2,
        customizations |-> <<>>, confidence |-> 5],
       [item_name |-> <<"tofu">>, quantity |-> 1,
        customizations |-> <<>>, confidence |-> 9] >> }

NoOrderResult ==
  [ raise |-> TRUE, success |-> FALSE, added_items |-> <<>>,
    failed_items |-> <<>>, requires_clarification |-> FALSE ]

OrderResult(added_items) ==
  [ raise |-> FALSE, success |-> added_items # <<>>,
    added_items |-> added_items, failed_items |-> <<>>,
    requires_clarification |-> added_items = <<>> ]

RawItem(name, quantity, price, customizations) ==
  [ name |-> name, quantity |-> quantity, price |-> price,
    customizations |-> customizations ]

\* Results the order chain may produce, or its failure.
OrderOutcomes ==
  { NoOrderResult,
    OrderResult(<<>>),
    OrderResult(<< RawItem(<<"burger">>, 0, 0, <<>>),
                   RawItem(<<>>, 1, 0, <<>>) >>),
    OrderResult(<< RawItem(<<"Classic", "Burger">>, 2, 1299, <<>>) >>) }

\* The LLM calls below the router: the order chain's result and whether the
\* text-generation call (menu query, delegated modification) returns.
SubOutcome(order, text_ok) == [order |-> order, text_ok |-> text_ok]

\* A turn's inputs: the text, the router's decision, the LLM calls that
\* failed while routing and the outcomes of the calls below.
TurnInput(text, d, failed, sub) ==
  [text |-> text, d |-> d, failed |-> failed, sub |-> sub]

\* The outcomes of the calls below the router while the LLM answers: a text
\* comes back, the order chain's structured result may fail to parse.
SubOutcomes(d) ==
  IF d.agent = "order" /\ d.user_intent # "MODIFY_ORDER" /\ d.extracted_items # <<>>
    THEN {SubOutcome(o, TRUE) : o \in OrderOutcomes}
    ELSE {SubOutcome(NoOrderResult, TRUE)}

\* The turns whose routing chain failed to give a decision, by the stage the
\* fallback reads.
FallbackTurns(stage) ==
  UNION { {TurnInput(u, FallbackRouting(u, stage), {"routing"}, sub) :
             sub \in SubOutcomes(FallbackRouting(u, stage))} : u \in Utterances }

GeneralTurns == FallbackTurns("greeting")
AwaitingTurns == FallbackTurns("awaiting_delivery")

\* The same turns with the LLM out of reach: every chain fails.
OfflineTurns(stage) ==
  { TurnInput(u, FallbackRouting(u, stage), {"routing"},
              SubOutcome(NoOrderResult, FALSE)) : u \in Utterances }

GeneralOffline == OfflineTurns("greeting")
AwaitingOffline == OfflineTurns("awaiting_delivery")

\* The turns whose routing chain answers d0, with the texts that the handler
\* of d0 reads.  For the order agent extract_multiple_items fills
\* extracted_items, from the extraction chain or, that chain failing, from
\* _manual_item_extraction.
Routed(d0) ==
  IF d0.needs_clarification \/ d0.agent \in {"upselling", "finalization", "human"}
       \/ (d0.agent = "delivery" /\ d0.user_intent # "MODIFY_ORDER")
    THEN {TurnInput(<<"hello">>, d0, {}, SubOutcome(NoOrderResult, TRUE))}
  ELSE IF d0.agent = "menu"
    THEN {TurnInput(u, d0, {}, SubOutcome(NoOrderResult, TRUE)) :
            u \in {<<"hello">>, <<"show", "menu">>}}
  ELSE IF d0.agent = "order" /\ d0.user_intent # "MODIFY_ORDER"
    THEN UNION { {TurnInput(<<"hello">>, [d0 EXCEPT !.extracted_items = x], {}, sub) :
                    sub \in SubOutcomes([d0 EXCEPT !.extracted_items = x])} :
                 x \in LLMExtractions }
           \cup {TurnInput(u, [d0 EXCEPT !.extracted_items = ManualItemExtraction(u)],
                           {"extraction"}, SubOutcome(NoOrderResult, TRUE)) :
                   u \in OrderUtterances}
  ELSE {TurnInput(u, d0, {}, SubOutcome(NoOrderResult, TRUE)) :
          u \in ChangeUtterances}

RoutedTurns == UNION {Routed(d0) : d0 \in LLMDecisions}

\* Lines that callers hand to add_order_item: the items of the menu, zero to
\* two of each, and a burger with a customization.
Items ==
  { [name |-> Menu[i].name, quantity |-> q, price |-> Menu[i].price,
     customizations |-> <<>>] : i \in DOMAIN Menu, q \in 0..2 }
    \cup { [name |-> Menu[1].name, quantity |-> 1, price |-> Menu[1].price,
            customizations |-> <<"no onions">>] }

\* Names that callers hand to remove_order_item.
Names == {<<"classic", "burger">>, <<"Margherita", "Pizza">>, <<"burger">>}

\* Texts that callers hand to handle_order_modification.
Changes ==
  ChangeUtterances
    \cup { <<"change", "pizza", "to", "2">>, <<"set", "burger", "0">>,
           <<"remove", "2", "pizzas">> }

\* The calls of handle_order_modification: every text with the LLM
\* answering, and a text that is no edit with the LLM failing.
ChangeCalls ==
  { [customer_input |-> t, llm_ok |-> TRUE] : t \in Changes }
    \cup { [customer_input |-> <<"hello">>, llm_ok |-> FALSE] }

WithinBounds(h) ==
  \A r \in DOMAIN h :
    /\ Len(h[r].current_order) <= MaxLines
    /\ \A i \in DOMAIN h[r].current_order :
         h[r].current_order[i].quantity <= MaxQty

\* ----------------------------------------------------------------- actions
\* ev: the operation op, the decision it was routed by, what it replied,
\* which LLM calls failed in it and, for a request to modify the order, its
\* text; or the call op(arg) and what it returned.
Event(op, d, reply, mod, failed, arg, ret) ==
  [ op |-> op, agent |-> d.agent, user_intent |-> d.user_intent,
    wants_order_change |-> d.wants_order_change,
    delivery_method |-> d.delivery_method,
    needs_clarification |-> d.needs_clarification,
    reply |-> reply, mod |-> mod, failed |-> failed, arg |-> arg, ret |-> ret ]

NoDecision == RouteDecision("none", "", <<>>, "", FALSE, FALSE)

Call(op, arg, ret) == Event(op, NoDecision, "none", "none", {}, arg, ret)

Init ==
  /\ heap = [r \in {0, 1} |-> NewSharedMemory]
  /\ coord = 0
  /\ ev = Call("init", <<>>, "none")

\* process_user_input on one turn's inputs.
ProcessUserInput(in) ==
  \E r \in {Turn(heap, coord, in.text, in.d, in.sub)} :
    /\ WithinBounds(r.heap)
    /\ heap' = r.heap
    /\ ev' = Event("turn", in.d, r.reply, r.mod, in.failed \cup r.failed,
                   IF in.d.user_intent = "MODIFY_ORDER" THEN in.text ELSE <<>>,
                   "none")
    /\ UNCHANGED coord

\* A turn whose routing chain answered.
ProcessUserInputRouted == \E in \in RoutedTurns : ProcessUserInput(in)

\* A turn whose routing chain failed to give a decision.
ProcessUserInputFallback ==
  \E in \in IF heap[coord].conversation_stage = "awaiting_delivery"
              THEN AwaitingTurns ELSE GeneralTurns :
    ProcessUserInput(in)

\* A turn with the LLM out of reach.
ProcessUserInputOffline ==
  \E in \in IF heap[coord].conversation_stage = "awaiting_delivery"
              THEN AwaitingOffline ELSE GeneralOffline :
    ProcessUserInput(in)

\* reset_conversation
ResetConversation ==
  /\ heap' = [heap EXCEPT ![1] = NewSharedMemory]
  /\ coord' = 1
  /\ ev' = Call("reset", <<>>, "none")

\* One session of the assistant, the LLM answering.
Next ==
  \/ ProcessUserInputRouted
  \/ ProcessUserInputFallback

Spec == Init /\ [][Next]_vars

\* Sessions one after the other, the LLM out of reach.
NextSessions ==
  \/ ProcessUserInputOffline
  \/ ResetConversation

SpecSessions == Init /\ [][NextSessions]_vars

\* shared_memory.add_order_item(item)
AddOrderItemCall ==
  \E item \in Items :
    \E m \in {AddOrderItem(heap[OrderAgentRef], item)} :
      /\ heap' = [heap EXCEPT ![OrderAgentRef] = m]
      /\ WithinBounds(heap')
      /\ ev' = Call("add_order_item", item, "none")
      /\ UNCHANGED coord

\* shared_memory.remove_order_item(item_name)
RemoveOrderItemCall ==
  \E item_name \in Names :
    \E r \in {RemoveOrderItem(heap[OrderAgentRef], item_name)} :
      /\ heap' = [heap EXCEPT ![OrderAgentRef] = r.mem]
      /\ ev' = Call("remove_order_item", item_name, r.ret)
      /\ UNCHANGED coord

\* shared_memory.clear_order()
ClearOrderCall ==
  /\ heap' = [heap EXCEPT ![OrderAgentRef] = ClearOrder(@)]
  /\ ev' = Call("clear_order", <<>>, "none")
  /\ UNCHANGED coord

\* order_agent.handle_order_modification(customer_input)
HandleOrderModificationCall ==
  \E c \in ChangeCalls :
    \E r \in {HandleOrderModification(heap[OrderAgentRef], c.customer_input,
                                       c.llm_ok)} :
      /\ heap' = [heap EXCEPT ![OrderAgentRef] = r.mem]
      /\ ev' = Call("handle_order_modification", c.customer_input, r.kind)
      /\ UNCHANGED coord

\* The ledger under the calls of its users.
NextMemory ==
  \/ AddOrderItemCall
  \/ RemoveOrderItemCall
  \/ ClearOrderCall
  \/ HandleOrderModificationCall

SpecMemory == Init /\ [][NextMemory]_vars

\* -------------------------------------------------------------- properties
\* C1: in every state reached by ledger operations (add_order_item with its
\* merge case, remove_order_item, clear_order, the edits of
\* handle_order_modification) the stored order_total is 1.08 times the sum
\* of price x quantity over the current lines.
C1_TotalAgreesWithLines ==
  OrderMemory.order_total = SummaryTotal(OrderMemory)

\* C2: add_order_item with the (name, customizations) of an existing line
\* adds the quantity to that line and keeps the number of lines; with any
\* other pair it appends one line at the end and leaves the others as they
\* were.
C2_AddMergesOrAppends ==
  [][ ev'.op = "add_order_item" =>
        LET o == OrderMemory.current_order
            n == OrderMemory'.current_order
            same == {i \in DOMAIN o :
                       /\ o[i].name = ev'.arg.name
                       /\ o[i].customizations = ev'.arg.customizations}
        IN  IF same # {}
              THEN /\ Len(n) = Len(o)
                   /\ \E i \in same :
                        n = [o EXCEPT ![i].quantity = @ + ev'.arg.quantity]
              ELSE n = Append(o, ev'.arg) ]_vars

\* C2, its case: a line was merged into and another pair sits beside it.
C2_Merged ==
  /\ ev.op = "add_order_item"
  /\ ev.arg.quantity = 1
  /\ Len(OrderMemory.current_order) = 2
  /\ \E i \in DOMAIN OrderMemory.current_order :
       /\ OrderMemory.current_order[i].name = ev.arg.name
       /\ OrderMemory.current_order[i].customizations = ev.arg.customizations
       /\ OrderMemory.current_order[i].quantity = 2
  /\ \E i \in DOMAIN OrderMemory.current_order :
       /\ OrderMemory.current_order[i].name = ev.arg.name
       /\ OrderMemory.current_order[i].customizations # ev.arg.customizations

\* The turn that led to the state took a cancellation path: CANCEL_ORDER
\* handled by the finalization or the delivery handler, or a cancel phrase
\* answered by handle_order_modification.
CancelTurn ==
  /\ ev.op = "turn"
  /\ ev.reply = "agent"
  /\ ~ ev.needs_clarification
  /\ \/ ev.agent \in {"finalization", "delivery"} /\ ev.user_intent = "CANCEL_ORDER"
     \/ ev.mod = "cancel"

\* C3: every cancellation path ends the turn with the ledger empty,
\* order_total 0 and conversation_stage greeting.
C3_CancelEndsAtGreeting ==
  CancelTurn =>
    /\ OrderMemory.current_order = <<>>
    /\ OrderMemory.order_total = 0
    /\ CoordMemory.conversation_stage = "greeting"

\* C4: once conversation_stage is completed, every later turn of the
\* session leaves it completed.
C4_CompletedStays ==
  [][ (CoordMemory.conversation_stage = "completed" /\ ev'.op = "turn")
        => CoordMemory'.conversation_stage = "completed" ]_vars

\* C5: once conversation_stage is completed, no later turn of the session
\* changes current_order or order_total.
C5_LedgerFrozen ==
  [][ (CoordMemory.conversation_stage = "completed" /\ ev'.op = "turn")
        => /\ OrderMemory'.current_order = OrderMemory.current_order
           /\ OrderMemory'.order_total = OrderMemory.order_total ]_vars

\* The remove commands among Changes: the item each one names and the
\* quantity it gives, NoQty when it gives none.
RemoveCommands ==
  { [text |-> <<"remove", "the", "burger">>,
     name |-> <<"Classic", "Burger">>, quantity |-> NoQty],
    [text |-> <<"REMOVE", "1", "Burger">>,
     name |-> <<"Classic", "Burger">>, quantity |-> 1],
    [text |-> <<"remove", "2", "pizzas">>,
     name |-> <<"Margherita", "Pizza">>, quantity |-> 2] }

\* The ledger n and its total are the ledger o with the one line called
\* name deleted and the total recomputed from what is left.
LineDeleted(o, n, total, name) ==
  \E i \in NamedLines(o, name) :
    /\ n = DelAt(o, i)
    /\ total = Subtotal(n) * (100 + TaxPercent)

\* C6: remove_order_item(name), or a remove command with no quantity or one
\* that is at least the line's, on an item that has exactly one line,
\* deletes that line, leaves the other lines as they were and recomputes
\* the total; remove_order_item returns false and leaves ledger and total
\* alone when no line matches.
C6_RemoveDeletesLine ==
  [][ LET o == OrderMemory.current_order
          n == OrderMemory'.current_order
          total == OrderMemory'.order_total
      IN  /\ ev'.op = "remove_order_item" =>
               /\ Cardinality(NamedLines(o, ev'.arg)) = 1 =>
                    LineDeleted(o, n, total, ev'.arg)
               /\ NamedLines(o, ev'.arg) = {} =>
                    /\ ev'.ret = FALSE
                    /\ n = o
                    /\ total = OrderMemory.order_total
          /\ ev'.op = "handle_order_modification" =>
               \A c \in RemoveCommands :
                 ( /\ ev'.arg = c.text
                   /\ Cardinality(NamedLines(o, c.name)) = 1
                   /\ \A i \in NamedLines(o, c.name) :
                        c.quantity = NoQty \/ c.quantity >= o[i].quantity )
                 => LineDeleted(o, n, total, c.name) ]_vars

\* C7: at the start of every session, at construction and after every
\* reset_conversation, the ledger the order agent works on is empty, its
\* order_total is 0, the error and upsell counters are 0 and the stage is
\* greeting.
C7_SessionStartsEmpty ==
  ev.op \in {"init", "reset"} =>
    /\ OrderMemory.current_order = <<>>
    /\ OrderMemory.order_total = 0
    /\ CoordMemory.error_count = 0
    /\ CoordMemory.upsell_attempts = 0
    /\ CoordMemory.conversation_stage = "greeting"

\* C8: the turn that sets conversation_stage to completed starts with the
\* stage at awaiting_delivery, whatever the router decided.
C8_CompletedFromAwaiting ==
  [][ ( /\ ev'.op = "turn"
        /\ CoordMemory.conversation_stage # "completed"
        /\ CoordMemory'.conversation_stage = "completed" )
        => CoordMemory.conversation_stage = "awaiting_delivery" ]_vars

\* C9: within a session error_count never decreases; an increment_error
\* that brings it to 3 or more sets needs_human_intervention with a reason
\* that is not empty, the first and the second error do not set the flag.
C9_ErrorsEscalate ==
  [][ ev'.op = "turn" =>
        /\ CoordMemory'.error_count >= CoordMemory.error_count
        /\ CoordMemory'.error_count > CoordMemory.error_count =>
             IF CoordMemory'.error_count >= 3
               THEN /\ CoordMemory'.needs_human_intervention
                    /\ CoordMemory'.intervention_reason # ""
               ELSE ~ CoordMemory'.needs_human_intervention ]_vars

\* C9, its case: the third error of a session has just been counted.
C9_ThirdError ==
  /\ ev.op = "turn"
  /\ ev.reply = "error"
  /\ CoordMemory.error_count = 3
  /\ CoordMemory.needs_human_intervention

\* C10: a turn in which an LLM call raises still ends with an agent's reply,
\* not the error reply, and does not count an error.
C10_FailuresAbsorbed ==
  [][ (ev'.op = "turn" /\ ev'.failed # {} /\ ~ CoordMemory.needs_human_intervention)
        => /\ ev'.reply = "agent"
           /\ CoordMemory'.error_count = CoordMemory.error_count ]_vars

\* Requests to add to the order: the item each one names and how many.
AddRequests ==
  { [text |-> <<"I", "want", "a", "burger">>,
     name |-> <<"Classic", "Burger">>, quantity |-> 1] }

RECURSIVE Quantity(_, _)
\* How many of the item called name the ledger holds.
Quantity(order, name) ==
  IF order = <<>> THEN 0
  ELSE (IF Head(order).name = name THEN Head(order).quantity ELSE 0)
         + Quantity(Tail(order), name)

\* The turn e, taken in memory m, handled a MODIFY_ORDER request while the
\* stage was awaiting_delivery, through the order handler or through the
\* delivery handler with wants_order_change.
ModifiedWhileAwaiting(m, e) ==
  /\ m.conversation_stage = "awaiting_delivery"
  /\ e.op = "turn"
  /\ e.reply = "agent"
  /\ ~ e.needs_clarification
  /\ e.user_intent = "MODIFY_ORDER"
  /\ e.agent = "order" \/ (e.agent = "delivery" /\ e.wants_order_change)

\* C11: a MODIFY_ORDER request handled while the stage is awaiting_delivery
\* is applied to the ledger (a remove command leaves no line of its item, a
\* request for an item adds it) and leaves the stage at awaiting_delivery.
C11_ModifyWhileAwaiting ==
  [][ ModifiedWhileAwaiting(CoordMemory, ev') =>
        LET o == CoordMemory.current_order
            n == CoordMemory'.current_order
        IN  /\ CoordMemory'.conversation_stage = "awaiting_delivery"
            /\ \A c \in RemoveCommands :
                 ( /\ ev'.arg = c.text
                   /\ Cardinality(NamedLines(o, c.name)) = 1
                   /\ \A i \in NamedLines(o, c.name) :
                        c.quantity = NoQty \/ c.quantity >= o[i].quantity )
                 => NamedLines(n, c.name) = {}
            /\ \A a \in AddRequests :
                 ev'.arg = a.text =>
                   Quantity(n, a.name) = Quantity(o, a.name) + a.quantity ]_vars

\* C12: in every reachable state every line of the ledger has a quantity
\* > 0 and a price >= 0, whichever way it was added or edited.
C12_PositiveQuantities ==
  \A i \in DOMAIN OrderMemory.current_order :
    /\ OrderMemory.current_order[i].quantity > 0
    /\ OrderMemory.current_order[i].price >= 0

\* C13: when handle_order_modification finds no deterministic edit (a text
\* with no pattern, or a remove command whose item has no line) it delegates
\* the reply and leaves current_order and order_total as they were, whether
\* the delegated call returns or fails.
C13_DelegationLeavesLedger ==
  [][ ev'.op = "handle_order_modification" =>
        LET o == OrderMemory.current_order
        IN  /\ ( \/ ev'.arg = <<"hello">>
                 \/ \E c \in RemoveCommands :
                      ev'.arg = c.text /\ NamedLines(o, c.name) = {} )
               => ev'.ret \in {"delegated", "fallback"}
            /\ ev'.ret \in {"delegated", "fallback"} =>
                 /\ OrderMemory'.current_order = o
                 /\ OrderMemory'.order_total = OrderMemory.order_total ]_vars

\* C13, its case: a remove command that names no line of a ledger with
\* lines was delegated.
C13_Delegated ==
  /\ ev.op = "handle_order_modification"
  /\ ev.ret = "delegated"
  /\ ev.arg = <<"remove", "the", "burger">>
  /\ OrderMemory.current_order # <<>>

\* C14: the stage tracks the phase of the conversation: after a turn handled
\* by the menu agent it is browsing, after one in which the order agent adds
\* to the ledger it is ordering, after an upsell turn it is upselling, and a
\* finalization request leaves it at finalizing or, past it, at
\* awaiting_delivery; process_conversation reports that value.
C14_StageTracksPhase ==
  [][ (ev'.op = "turn" /\ ev'.reply = "agent" /\ ~ ev'.needs_clarification) =>
        /\ ev'.agent = "menu" => ReportedStage' = "browsing"
        /\ ( /\ ev'.agent = "order"
             /\ ev'.user_intent # "MODIFY_ORDER"
             /\ OrderMemory'.current_order # OrderMemory.current_order )
           => ReportedStage' = "ordering"
        /\ ev'.agent = "upselling" => ReportedStage' = "upselling"
        /\ (ev'.agent = "finalization" /\ ev'.user_intent # "CANCEL_ORDER")
           => ReportedStage' \in {"finalizing", "awaiting_delivery"} ]_vars

\* C15: an empty order is never completed: when a turn of the delivery
\* handler sets conversation_stage to completed and customer_intent to
\* COMPLETED, the ledger has lines and order_total > 0.
C15_NoEmptyCompletion ==
  [][ ( /\ ev'.op = "turn"
        /\ ev'.reply = "agent"
        /\ ~ ev'.needs_clarification
        /\ ev'.agent = "delivery"
        /\ ev'.delivery_method # ""
        /\ CoordMemory'.conversation_stage = "completed"
        /\ CoordMemory'.customer_intent = "COMPLETED" )
        => /\ CoordMemory'.current_order # <<>>
           /\ CoordMemory'.order_total > 0 ]_vars

\* A turn that the finalization handler answered and that was no
\* cancellation.
FinalizationTurn(e) ==
  /\ e.op = "turn"
  /\ e.reply = "agent"
  /\ ~ e.needs_clarification
  /\ e.agent = "finalization"
  /\ ~ (e.wants_order_change /\ e.user_intent = "CANCEL_ORDER")

\* C16: a finalization request that is no cancellation moves the stage to
\* awaiting_delivery and the intent to DELIVERY_METHOD if and only if the
\* ledger is non-empty and order_total > 0; otherwise the stage and the
\* ledger are unchanged and the validation message is 'No items in order'
\* (empty ledger) or 'Missing: valid pricing'.
C16_FinalizationIffReady ==
  [][ FinalizationTurn(ev')
        => /\ ( /\ CoordMemory'.conversation_stage = "awaiting_delivery"
                /\ CoordMemory'.customer_intent = "DELIVERY_METHOD" )
              <=> ( /\ OrderMemory.current_order # <<>>
                    /\ OrderMemory.order_total > 0 )
           /\ ~ (OrderMemory.current_order # <<>> /\ OrderMemory.order_total > 0)
                => /\ CoordMemory'.conversation_stage
                        = CoordMemory.conversation_stage
                   /\ OrderMemory'.current_order = OrderMemory.current_order
                   /\ OrderMemory'.order_total = OrderMemory.order_total
                   /\ ValidateOrderCompletion(OrderMemory).message
                        = IF OrderMemory.current_order = <<>>
                            THEN "No items in order"
                            ELSE "Missing: valid pricing" ]_vars

\* A finalization request has just been accepted for a priced order.
C16_Accepted ==
  /\ FinalizationTurn(ev)
  /\ CoordMemory.conversation_stage = "awaiting_delivery"
  /\ CoordMemory.customer_intent = "DELIVERY_METHOD"
  /\ OrderMemory.current_order # <<>>
  /\ OrderMemory.order_total > 0

\* C17: in every reachable state, after reset_conversation too, the order
\* agent and the coordinator hold the same SharedMemory: the lines and the
\* total the order agent keeps are the ones the coordinator reads, and the
\* stage the coordinator sets is the one the order agent's guard reads.
C17_OneSharedMemory ==
  /\ coord = OrderAgentRef
  /\ CoordMemory.current_order = OrderMemory.current_order
  /\ CoordMemory.order_total = OrderMemory.order_total
  /\ CoordMemory.conversation_stage = OrderMemory.conversation_stage

\* The turn just taken made an upsell suggestion: _post_process_response
\* appended one to an order reply, or _handle_upselling_request answered with
\* the one of its except clause.
UpsellSuggested ==
  /\ ev'.op = "turn"
  /\ ev'.reply = "agent"
  /\ \/ "upselling" \in ev'.failed
     \/ /\ ev'.agent = "order"
        /\ ~ ev'.needs_clarification
        /\ CoordMemory'.upsell_attempts = CoordMemory.upsell_attempts + 1

\* C18: upsell_attempts stays within 0..max_upsell_attempts, a turn raises
\* it by at most 1, and an upsell suggestion is made only on a turn where
\* the ledger has lines and the counter is below the maximum, each suggestion
\* being counted, so that a session sees at most max_upsell_attempts of them.
C18_UpsellsCounted ==
  [][ ev'.op = "turn"
        => /\ CoordMemory'.upsell_attempts \in 0..max_upsell_attempts
           /\ CoordMemory'.upsell_attempts - CoordMemory.upsell_attempts
                \in {0, 1}
           /\ UpsellSuggested
                => /\ CoordMemory'.current_order # <<>>
                   /\ CoordMemory.upsell_attempts < max_upsell_attempts
                   /\ CoordMemory'.upsell_attempts
                        = CoordMemory.upsell_attempts + 1 ]_vars

\* C19: process_user_input lets no exception out: every turn ends with an
\* agent's reply, the human-intervention reply or the error reply; the error
\* reply comes with error_count raised by exactly 1, and any other turn
\* leaves error_count as it was.
C19_ErrorsCaughtAndCounted ==
  [][ ev'.op = "turn"
        => /\ ev'.reply \in {"agent", "human", "error"}
           /\ ev'.reply = "error"
                => CoordMemory'.error_count = CoordMemory.error_count + 1
           /\ ev'.reply # "error"
                => CoordMemory'.error_count = CoordMemory.error_count ]_vars

\* A turn has just been answered with the error reply, the first error of
\* its session.
C19_FirstError ==
  /\ ev.op = "turn"
  /\ ev.reply = "error"
  /\ "menu" \in ev.failed
  /\ CoordMemory.error_count = 1
  /\ ~ CoordMemory.needs_human_intervention

\* C20: once needs_human_intervention is set, a later turn that the router
\* sends to the menu or the order agent is still executed by that agent: it
\* is answered by the agent, not with the hand-over to a human.
C20_StillServedAfterEscalation ==
  [][ ( /\ CoordMemory.needs_human_intervention
        /\ ev'.op = "turn"
        /\ ev'.agent \in {"menu", "order"} )
        => ev'.reply \in {"agent", "error"} ]_vars

\* C21: in every state reached from the empty ledger by add_order_item,
\* remove_order_item, handle_order_modification and clear_order, no two
\* lines of the ledger have the same name and the same customizations.
C21_NoDuplicateLines ==
  \A i, j \in DOMAIN OrderMemory.current_order :
    ( /\ OrderMemory.current_order[i].name = OrderMemory.current_order[j].name
      /\ OrderMemory.current_order[i].customizations
           = OrderMemory.current_order[j].customizations )
      => i = j

\* The same line has just been added a second time and merged, next to a
\* line of the same name with other customizations.
C21_MergedNextToVariant ==
  /\ ev.op = "add_order_item"
  /\ Len(OrderMemory.current_order) = 2
  /\ OrderMemory.current_order[1].name = OrderMemory.current_order[2].name
  /\ \E i \in {1, 2} :
       /\ OrderMemory.current_order[i].customizations = ev.arg.customizations
       /\ OrderMemory.current_order[i].name = ev.arg.name
       /\ OrderMemory.current_order[i].quantity > ev.arg.quantity

\* process_user_input on text from the objects h, c with every LLM call
\* failing: the decision of the fallback router and what the turn leaves.
OfflineTurn(h, c, text) ==
  [d |-> FallbackRouting(text, h[c].conversation_stage),
   r |-> Turn(h, c, text, FallbackRouting(text, h[c].conversation_stage),
              SubOutcome(NoOrderResult, FALSE))]

\* The three turns 'I want a burger', 'done', 'delivery' from h, c.
BurgerTurn(h, c) == OfflineTurn(h, c, <<"I", "want", "a", "burger">>)
DoneTurn(h, c) == OfflineTurn(BurgerTurn(h, c).r.heap, c, <<"done">>)
DeliveryTurn(h, c) == OfflineTurn(DoneTurn(h, c).r.heap, c, <<"delivery">>)

C23_RemoveReducesLine ==
  [][ ev'.op = "handle_order_modification" =>
        \A c \in RemoveCommands :
          \A i \in DOMAIN OrderMemory.current_order :
            ( /\ ev'.arg = c.text
              /\ NamedLines(OrderMemory.current_order, c.name) # {}
              /\ i = Min(NamedLines(OrderMemory.current_order, c.name))
              /\ c.quantity # NoQty
              /\ c.quantity < OrderMemory.current_order[i].quantity )
            => /\ OrderMemory'.current_order
                    = [OrderMemory.current_order
                         EXCEPT ![i].quantity = @ - c.quantity]
               /\ OrderMemory'.order_total
                    = Subtotal(OrderMemory'.current_order) * (100 + TaxPercent)
    ]_vars

\* The quantity-set commands among Changes: the item each one names and the
\* quantity it sets.
SetCommands ==
  { [text |-> <<"make", "that", "2", "burgers">>,
     name |-> <<"Classic", "Burger">>, quantity |-> 2],
    [text |-> <<"change", "pizza", "to", "2">>,
     name |-> <<"Margherita", "Pizza">>, quantity |-> 2],
    [text |-> <<"set", "burger", "0">>,
     name |-> <<"Classic", "Burger">>, quantity |-> 0] }

\* The ledger n is the ledger o with line i set to quantity, deleted when
\* quantity is 0.
LineSet(o, n, i, quantity) ==
  n = IF quantity = 0 THEN DelAt(o, i)
      ELSE [o EXCEPT ![i].quantity = quantity]

\* C24: a quantity-set command that resolves to a line of the order sets
\* that line's quantity to the number given, removes the line when the
\* number is 0, changes no other line and recomputes the total from the
\* lines.
C24_SetQuantity ==
  [][ ev'.op = "handle_order_modification" =>
        \A c \in SetCommands :
          ( /\ ev'.arg = c.text
            /\ NamedLines(OrderMemory.current_order, c.name) # {} )
          => /\ LineSet(OrderMemory.current_order, OrderMemory'.current_order,
                        Min(NamedLines(OrderMemory.current_order, c.name)),
                        c.quantity)
             /\ OrderMemory'.order_total
                  = Subtotal(OrderMemory'.current_order) * (100 + TaxPercent)
    ]_vars

\* Item lists handed to _fallback_order_processing: those of the extraction
\* LLM, those of _manual_item_extraction, and an item whose confidence is
\* the threshold itself.
ExtractionLists ==
  LLMExtractions
    \cup {ManualItemExtraction(u) : u \in OrderUtterances}
    \cup { << [item_name |-> <<"pizza">>, quantity |-> 1,
               customizations |-> <<>>, confidence |-> ConfidenceThreshold],
              [item_name |-> <<"burger">>, quantity |-> 2,
               customizations |-> <<>>, confidence |-> 7] >> }

\* The extracted item names an item of the menu with confidence > 0.6.
Accepted(it) ==
  FindBestMenuMatch(it.item_name) # 0 /\ it.confidence > ConfidenceThreshold

Rejected(it) == ~ Accepted(it)

\* The ledger line of an accepted item: the menu's name and price.
MenuLine(it) ==
  [ name |-> Menu[FindBestMenuMatch(it.item_name)].name,
    quantity |-> it.quantity,
    price |-> Menu[FindBestMenuMatch(it.item_name)].price,
    customizations |-> it.customizations ]

RECURSIVE AddAll(_, _)
\* add_order_item of every line of lines, in their order.
AddAll(m, lines) ==
  IF lines = <<>> THEN m ELSE AddAll(AddOrderItem(m, Head(lines)), Tail(lines))

\* C25: fallback order processing partitions the extracted items: the items
\* that match a menu item with confidence > 0.6 are the added_items, added
\* to the ledger with the menu's name and price, the others are the
\* failed_items and leave the ledger alone; success tells that an item was
\* added, requires_clarification that an item failed.
C25_FallbackPartitions ==
  \A x \in ExtractionLists :
    \E r \in {FallbackOrderProcessing(OrderMemory, x)} :
      /\ r.added_items
           = [k \in DOMAIN SelectSeq(x, Accepted) |->
                MenuLine(SelectSeq(x, Accepted)[k])]
      /\ r.failed_items
           = [k \in DOMAIN SelectSeq(x, Rejected) |->
                SelectSeq(x, Rejected)[k].item_name]
      /\ Len(r.added_items) + Len(r.failed_items) = Len(x)
      /\ r.mem = AddAll(OrderMemory, r.added_items)
      /\ r.success <=> r.added_items # <<>>
      /\ r.requires_clarification <=> r.failed_items # <<>>

\* The order chain has just failed on the three items of the extraction LLM:
\* the fallback added the burger and left the pizza and the tofu out.
C25_BurgerOnly ==
  /\ ev.op = "turn"
  /\ ev.agent = "order"
  /\ ev.failed = {"order"}
  /\ Len(OrderMemory.current_order) = 1
  /\ OrderMemory.current_order[1].name = <<"Classic", "Burger">>
  /\ OrderMemory.current_order[1].price = Menu[FindBestMenuMatch(<<"burger">>)].price

\* The inputs that express a cancellation: cancel, stop, nevermind or forget
\* is among their words.
CancelInputs ==
  { u \in Utterances :
      AnyIn({<<w>> : w \in {"cancel", "stop", "nevermind", "forget"}},
            LowerText(u)) }

\* C26: while the stage is awaiting_delivery, fallback routing sends every
\* input that expresses a cancellation to the finalization agent with
\* user_intent CANCEL_ORDER and wants_order_change true, whatever other
\* words it holds, and the turn cancels the order.
C26_CancelWhileAwaiting ==
  CoordMemory.conversation_stage = "awaiting_delivery" =>
    \A u \in CancelInputs :
      /\ OfflineTurn(heap, coord, u).d.agent = "finalization"
      /\ OfflineTurn(heap, coord, u).d.user_intent = "CANCEL_ORDER"
      /\ OfflineTurn(heap, coord, u).d.wants_order_change
      /\ OfflineTurn(heap, coord, u).r.heap[coord].conversation_stage
           = "greeting"
      /\ OfflineTurn(heap, coord, u).r.heap[coord].current_order = <<>>

\* The values of conversation_stage.
Stages ==
  {"greeting", "browsing", "ordering", "upselling", "finalizing",
   "awaiting_delivery", "completed"}

\* C27: fallback routing answers with the menu, order, finalization or
\* delivery agent and needs_clarification false, and with the delivery agent
\* and a delivery_method only when the stage is awaiting_delivery; so when
\* every turn is routed by fallback the stage becomes completed only from
\* awaiting_delivery.
C27_FallbackDeliveryOnlyAwaiting ==
  /\ \A u \in Utterances, stage \in Stages :
       /\ FallbackRouting(u, stage).agent
            \in {"menu", "order", "finalization", "delivery"}
       /\ ~ FallbackRouting(u, stage).needs_clarification
       /\ ( \/ FallbackRouting(u, stage).agent = "delivery"
            \/ FallbackRouting(u, stage).delivery_method # "" )
            => stage = "awaiting_delivery"
  /\ [][ ev'.op = "turn"
           => /\ ev'.agent \in {"menu", "order", "finalization", "delivery"}
              /\ ~ ev'.needs_clarification
              /\ (ev'.agent = "delivery" \/ ev'.delivery_method # "")
                   => CoordMemory.conversation_stage = "awaiting_delivery"
              /\ ( /\ CoordMemory.conversation_stage # "completed"
                   /\ CoordMemory'.conversation_stage = "completed" )
                   => CoordMemory.conversation_stage = "awaiting_delivery"
       ]_vars

\* A session that followed a reset has just been completed, every turn
\* routed by fallback.
C27_CompletedAfterReset ==
  /\ coord # OrderAgentRef
  /\ ev.op = "turn"
  /\ ev.agent = "delivery"
  /\ ev.delivery_method # ""
  /\ "routing" \in ev.failed
  /\ CoordMemory.conversation_stage = "completed"

====
